---------------------------- MODULE Spec2Model ----------------------------
(* fern: read typed settings from the OS environ (src/fern.py).             *)
(*                                                                          *)
(* Python values are tagged records [t, v]: t names the type, v holds the   *)
(* payload. A str is a sequence of one-character strings, so that lower(),  *)
(* strip() and split() are computed character by character.                 *)
EXTENDS Integers, Sequences, FiniteSets, TLC

VARIABLES environ, env, ctor, last, pb

vars == <<environ, env, ctor, last, pb>>

----------------------------------------------------------------------------
(* Bounds of the model.                                                     *)

\* longest key list passed to a lookup
MaxKeys == 2

\* longest string over ShortChars handed to parse_boolean exhaustively
MaxLen == 3

----------------------------------------------------------------------------
(* Python values.                                                           *)

PyNone == [t |-> "None", v |-> <<>>]

PyStr(s) == [t |-> "str", v |-> s]

PyInt(n) == [t |-> "int", v |-> n]

PyBool(b) == [t |-> "bool", v |-> b]

PyList(l) == [t |-> "list", v |-> l]

\* a str naming an environment variable; names are only ever looked up, never
\* taken apart, and the OS admits no empty name, so a name is always true
EnvName(n) == [t |-> "name", v |-> n]

PyDict(d) == [t |-> "dict", v |-> d]

\* a keyword argument the caller did not write
NotPassed == [t |-> "NotPassed", v |-> <<>>]

NOT_PROVIDED == [t |-> "NOT_PROVIDED", v |-> <<>>]

\* Python truth value of None, a str or a list: None, '' and [] are false
Truthy(x) ==
    CASE x.t \in {"str", "list"} -> x.v # <<>>
      [] x.t = "name" -> TRUE
      [] OTHER -> FALSE

Range(f) == {f[i] : i \in DOMAIN f}

----------------------------------------------------------------------------
(* Strings.                                                                 *)

s_empty == <<>>

s_dev == <<"d", "e", "v">>

s_prod == <<"p", "r", "o", "d">>

s_qa == <<"q", "a">>

s_0 == <<"0">>

s_7 == <<"7">>

s_17 == <<"1", "7">>

s_n == <<"n">>

s_f == <<"f">>

s_no == <<"n", "o">>

s_false == <<"f", "a", "l", "s", "e">>

s_true == <<"t", "r", "u", "e">>

s_list == <<" ", "7", ",", "n", "o", " ">>

Whitespace == {" "}

Digits == {"0", "1", "7"}

\* <<lowercase, uppercase>> of the cased characters of the model's alphabet
CasePairs ==
    {<<"f", "F">>, <<"a", "A">>, <<"l", "L">>, <<"s", "S">>, <<"e", "E">>,
     <<"n", "N">>, <<"o", "O">>, <<"t", "T">>, <<"r", "R">>, <<"u", "U">>}

Chars ==
    {p[1] : p \in CasePairs} \cup {p[2] : p \in CasePairs} \cup Digits
        \cup Whitespace \cup {",", "d", "v", "p", "q"}

\* str.lower() on one character
lower_char(c) ==
    IF \E p \in CasePairs : p[2] = c
    THEN (CHOOSE p \in CasePairs : p[2] = c)[1]
    ELSE c

\* str.lower()
str_lower(s) == [i \in 1..Len(s) |-> lower_char(s[i])]

RECURSIVE str_lstrip(_)
str_lstrip(s) ==
    IF s # <<>> /\ Head(s) \in Whitespace THEN str_lstrip(Tail(s)) ELSE s

RECURSIVE str_rstrip(_)
str_rstrip(s) ==
    IF s # <<>> /\ s[Len(s)] \in Whitespace
    THEN str_rstrip(SubSeq(s, 1, Len(s) - 1))
    ELSE s

\* str.strip()
str_strip(s) == str_rstrip(str_lstrip(s))

\* str.split(sep): the pieces between the separators, empty pieces kept
RECURSIVE str_split(_, _, _)
str_split(s, sep, piece) ==
    IF s = <<>> THEN <<piece>>
    ELSE IF Head(s) = sep THEN <<piece>> \o str_split(Tail(s), sep, <<>>)
    ELSE str_split(Tail(s), sep, Append(piece, Head(s)))

DigitVal(c) == CASE c = "0" -> 0 [] c = "1" -> 1 [] c = "7" -> 7

RECURSIVE DecimalVal(_, _)
DecimalVal(s, acc) ==
    IF s = <<>> THEN acc ELSE DecimalVal(Tail(s), 10 * acc + DigitVal(Head(s)))

----------------------------------------------------------------------------
(* The value parsers.                                                       *)

FalseStrings == {s_empty, s_0, s_n, s_f, s_no, s_false}

\* faulty variant of parse_boolean: the lower() call left out
parse_boolean_no_lower(s) == s \notin FalseStrings

\* parse_boolean(s): s.lower() not in {'', '0', 'n', 'f', 'no', 'false'}
parse_boolean(s) == str_lower(s) \notin FalseStrings

\* parse_comma_list(s)
parse_comma_list(s) ==
    IF str_strip(s) = <<>>
    THEN <<>>
    ELSE LET parts == str_split(s, ",", <<>>)
         IN  [i \in 1..Len(parts) |-> str_strip(parts[i])]

\* int(s) on a str: surrounding whitespace is ignored, then decimal digits
\* only; anything else raises ValueError
py_int(s) ==
    LET b == str_strip(s)
    IN  IF b # <<>> /\ \A i \in 1..Len(b) : b[i] \in Digits
        THEN [raised |-> "", ret |-> PyInt(DecimalVal(b, 0))]
        ELSE [raised |-> "ValueError: invalid literal for int()", ret |-> PyNone]

----------------------------------------------------------------------------
(* class Env.                                                               *)

Names == {"MODE", "FOO", "BAZ"}

DEFAULT_VALID_MODES == <<s_dev, s_prod>>

\* os.environ.get(key, default): E maps every name to its str, or to None
\* when the variable is not set
environ_get(E, key, default) == IF E[key].t = "None" THEN default ELSE E[key]

\* x in l, for a list l
list_contains(l, x) == x \in Range(l)

NoSelf ==
    [mode_env_var |-> PyNone, valid_modes |-> <<>>, default_mode |-> <<>>,
     mode |-> <<>>]

Env_init_attrs(mode_env_var, valid_modes, default_mode, E) ==
    LET valid == IF Truthy(valid_modes) THEN valid_modes.v ELSE DEFAULT_VALID_MODES
        dflt == IF Truthy(default_mode) THEN default_mode.v ELSE valid[1]
        mode == IF Truthy(mode_env_var)
                THEN environ_get(E, mode_env_var.v, PyStr(dflt)).v
                ELSE dflt
    IN  [mode_env_var |-> mode_env_var, valid_modes |-> valid,
         default_mode |-> dflt, mode |-> mode]

\* faulty variants of Env.__init__, which the properties must tell from it:
\* no validation; validation of default_mode in place of mode; the mode
\* variable never read
Env_init_unchecked(mode_env_var, valid_modes, default_mode, E) ==
    [raised |-> "",
     self |-> Env_init_attrs(mode_env_var, valid_modes, default_mode, E)]

Env_init_checks_default(mode_env_var, valid_modes, default_mode, E) ==
    LET self == Env_init_attrs(mode_env_var, valid_modes, default_mode, E)
    IN  IF ~list_contains(self.valid_modes, self.default_mode)
        THEN [raised |-> "ValueError: Mode must be one of valid_modes",
              self |-> NoSelf]
        ELSE [raised |-> "", self |-> self]

Env_init_ignores_env(mode_env_var, valid_modes, default_mode, E) ==
    LET self == Env_init_attrs(PyNone, valid_modes, default_mode, E)
    IN  IF ~list_contains(self.valid_modes, self.mode)
        THEN [raised |-> "ValueError: Mode must be one of valid_modes",
              self |-> NoSelf]
        ELSE [raised |-> "", self |-> [self EXCEPT !.mode_env_var = mode_env_var]]

\* Env.__init__(mode_env_var, valid_modes, default_mode) in environment E:
\* the exception raised ("" for none) and the instance
Env_init(mode_env_var, valid_modes, default_mode, E) ==
    LET self == Env_init_attrs(mode_env_var, valid_modes, default_mode, E)
    IN  IF ~list_contains(self.valid_modes, self.mode)
        THEN [raised |-> "ValueError: Mode must be one of valid_modes",
              self |-> NoSelf]
        ELSE [raised |-> "", self |-> self]

\* the coerce functions the model passes: str, int, parse_boolean,
\* parse_comma_list, each applied to a str
apply_coerce(coerce, val) ==
    CASE coerce = "str" -> [raised |-> "", ret |-> PyStr(val.v)]
      [] coerce = "int" -> py_int(val.v)
      [] coerce = "parse_boolean" ->
            [raised |-> "", ret |-> PyBool(parse_boolean(val.v))]
      [] coerce = "parse_comma_list" ->
            [raised |-> "", ret |-> PyList(parse_comma_list(val.v))]

\* faulty variant of scan_keys: "if val:" in place of "if val is not None:",
\* so that a variable set to '' is passed over
RECURSIVE scan_keys_truthy(_, _, _)
scan_keys_truthy(keys, i, E) ==
    IF i > Len(keys)
    THEN [bound |-> Len(keys) > 0, val |-> PyNone]
    ELSE IF Truthy(environ_get(E, keys[i], PyNone))
         THEN [bound |-> TRUE, val |-> environ_get(E, keys[i], PyNone)]
         ELSE scan_keys_truthy(keys, i + 1, E)

\* for key in keys: val = os.environ.get(key); if val is not None: break
\* bound is FALSE when the loop body never ran and val was never assigned
RECURSIVE scan_keys(_, _, _)
scan_keys(keys, i, E) ==
    IF i > Len(keys)
    THEN [bound |-> Len(keys) > 0, val |-> PyNone]
    ELSE IF environ_get(E, keys[i], PyNone).t # "None"
         THEN [bound |-> TRUE, val |-> environ_get(E, keys[i], PyNone)]
         ELSE scan_keys(keys, i + 1, E)

\* mode_defaults.get(self.mode, default)
dict_get(d, key, default) == IF key \in DOMAIN d.v THEN d.v[key] ELSE default

\* the value __call__ falls back on when no key is set
resolve_default(self, default, mode_defaults) ==
    IF mode_defaults.t # "None"
    THEN dict_get(mode_defaults, self.mode, default)
    ELSE default

\* faulty variant of call_return: "return coerce(val)"
call_return_always(coerce, val) ==
    [raised |-> apply_coerce(coerce, val).raised,
     ret |-> apply_coerce(coerce, val).ret, coerced |-> <<val>>]

\* return coerce(val) if val is not None else val
call_return(coerce, val) ==
    IF val.t # "None"
    THEN [raised |-> apply_coerce(coerce, val).raised,
          ret |-> apply_coerce(coerce, val).ret, coerced |-> <<val>>]
    ELSE [raised |-> "", ret |-> val, coerced |-> <<>>]

\* Env.__call__(keys, default, mode_defaults, coerce) in environment E: the
\* exception raised ("" for none), the value returned and the arguments
\* coerce was called with, in order
Env_call(self, keys, default, mode_defaults, coerce, E) ==
    LET keylist == IF keys.t = "name" THEN <<keys.v>> ELSE keys.v
        scan == scan_keys(keylist, 1, E)
        dflt == resolve_default(self, default, mode_defaults)
    IN  IF ~scan.bound
        THEN [raised |-> "UnboundLocalError: val", ret |-> PyNone,
              coerced |-> <<>>]
        ELSE IF scan.val.t = "None"
        THEN IF dflt.t = "NOT_PROVIDED"
             THEN [raised |-> "ValueError: Environment variable is required",
                   ret |-> PyNone, coerced |-> <<>>]
             ELSE call_return(coerce, dflt)
        ELSE call_return(coerce, scan.val)

\* Env.boolean, Env.comma_list, Env.integer: def f(self, keys, default);
\* any other keyword argument fails the call before the body runs
Env_shortcut(self, keys, default, mode_defaults, coerce, E) ==
    IF mode_defaults.t # "NotPassed"
    THEN [raised |-> "TypeError: unexpected keyword argument 'mode_defaults'",
          ret |-> PyNone, coerced |-> <<>>]
    ELSE Env_call(self, keys, default, PyNone, coerce, E)

Env_boolean(self, keys, default, mode_defaults, E) ==
    Env_shortcut(self, keys, default, mode_defaults, "parse_boolean", E)

Env_comma_list(self, keys, default, mode_defaults, E) ==
    Env_shortcut(self, keys, default, mode_defaults, "parse_comma_list", E)

Env_integer(self, keys, default, mode_defaults, E) ==
    Env_shortcut(self, keys, default, mode_defaults, "int", E)

----------------------------------------------------------------------------
(* State: the process environment, the one Env of the process, the record   *)
(* of the latest constructor call, the record of the latest lookup, and the *)
(* parse_boolean test bench.                                                *)

NoEnv == [t |-> "None", v |-> NoSelf]

NoCtor ==
    [called |-> FALSE, mode_env_var |-> PyNone, valid_modes |-> PyNone,
     default_mode |-> PyNone, seen |-> PyNone, raised |-> "", mode |-> <<>>]

NoCall ==
    [op |-> "none", keys |-> PyList(<<>>), default |-> NOT_PROVIDED,
     mode_defaults |-> PyNone, coerce |-> "str", seen |-> <<>>,
     raised |-> "", ret |-> PyNone, coerced |-> <<>>]

PbIdle == [s |-> <<>>, t |-> <<>>, done |-> FALSE, rs |-> FALSE, rt |-> FALSE]

Init ==
    /\ environ = [n \in Names |-> PyNone]
    /\ env = NoEnv
    /\ ctor = NoCtor
    /\ last = NoCall
    /\ pb = PbIdle

\* the environment changes: os.environ[name] = value
SetEnv(name, value) ==
    /\ environ' = [environ EXCEPT ![name] = PyStr(value)]
    /\ UNCHANGED <<env, ctor, last, pb>>

\* the environment changes: del os.environ[name]
DelEnv(name) ==
    /\ environ[name].t # "None"
    /\ environ' = [environ EXCEPT ![name] = PyNone]
    /\ UNCHANGED <<env, ctor, last, pb>>

\* env = Env(mode_env_var, valid_modes, default_mode), once per process: a
\* failed construction leaves the process without an Env
New(mode_env_var, valid_modes, default_mode) ==
    /\ env.t = "None"
    /\ LET r == Env_init(mode_env_var, valid_modes, default_mode, environ)
       IN  /\ env' = IF r.raised = "" THEN [t |-> "Env", v |-> r.self] ELSE env
           /\ ctor' = [called |-> TRUE, mode_env_var |-> mode_env_var,
                       valid_modes |-> valid_modes,
                       default_mode |-> default_mode,
                       seen |-> IF mode_env_var.t = "name"
                                THEN environ[mode_env_var.v]
                                ELSE PyNone,
                       raised |-> r.raised, mode |-> r.self.mode]
    /\ UNCHANGED <<environ, last, pb>>

\* what the environment holds for each of the keys, in the order given
Seen(keys) ==
    LET keylist == IF keys.t = "name" THEN <<keys.v>> ELSE keys.v
    IN  [i \in 1..Len(keylist) |-> environ[keylist[i]]]

Record(op, keys, default, mode_defaults, coerce, r) ==
    [op |-> op, keys |-> keys, default |-> default,
     mode_defaults |-> mode_defaults, coerce |-> coerce, seen |-> Seen(keys),
     raised |-> r.raised, ret |-> r.ret, coerced |-> r.coerced]

\* env(keys, default=..., mode_defaults=..., coerce=...)
Call(keys, default, mode_defaults, coerce) ==
    /\ env.t = "Env"
    /\ last' = Record("__call__", keys, default, mode_defaults, coerce,
                      Env_call(env.v, keys, default, mode_defaults, coerce,
                               environ))
    /\ UNCHANGED <<environ, env, ctor, pb>>

\* env.boolean(keys, default=..., [mode_defaults=...])
Boolean(keys, default, mode_defaults) ==
    /\ env.t = "Env"
    /\ last' = Record("boolean", keys, default, mode_defaults, "parse_boolean",
                      Env_boolean(env.v, keys, default, mode_defaults, environ))
    /\ UNCHANGED <<environ, env, ctor, pb>>

\* env.comma_list(keys, default=..., [mode_defaults=...])
CommaList(keys, default, mode_defaults) ==
    /\ env.t = "Env"
    /\ last' = Record("comma_list", keys, default, mode_defaults,
                      "parse_comma_list",
                      Env_comma_list(env.v, keys, default, mode_defaults,
                                     environ))
    /\ UNCHANGED <<environ, env, ctor, pb>>

\* env.integer(keys, default=..., [mode_defaults=...])
Integer(keys, default, mode_defaults) ==
    /\ env.t = "Env"
    /\ last' = Record("integer", keys, default, mode_defaults, "int",
                      Env_integer(env.v, keys, default, mode_defaults, environ))
    /\ UNCHANGED <<environ, env, ctor, pb>>

----------------------------------------------------------------------------
(* Inputs.                                                                  *)

SeqsUpTo(S, n) == UNION {[1..k -> S] : k \in 0..n}

LookupNames == {"FOO", "BAZ"}

\* values the looked-up variables are set to
LookupValues(n) == IF n = "FOO" THEN {s_empty, s_7} ELSE {s_no}

KeysArgs ==
    {EnvName("FOO")} \cup {PyList(l) : l \in SeqsUpTo(LookupNames, MaxKeys)}

DefaultArgs == {NOT_PROVIDED, PyNone, PyStr(s_list)}

\* {'dev': None} and {'prod': '17'}
Dicts ==
    {PyDict([m \in {s_dev} |-> PyNone]), PyDict([m \in {s_prod} |-> PyStr(s_17)])}

\* what a shortcut is called with for mode_defaults: nothing, or {'prod': '17'}
ShortcutDicts == {NotPassed, PyDict([m \in {s_prod} |-> PyStr(s_17)])}

\* values the mode variable is set to
ModeValues == {s_empty, s_dev, s_prod, s_qa}

ValidModesArgs ==
    {PyNone, PyList(<<>>), PyList(<<s_qa, s_dev>>), PyList(<<s_qa, s_empty>>)}

DefaultModeArgs == {PyNone} \cup {PyStr(m) : m \in ModeValues}

----------------------------------------------------------------------------
(* Spec: the environment is prepared, an Env of mode dev or prod is made,   *)
(* and lookups follow. A lookup changes nothing a later lookup reads, so    *)
(* every lookup is made in every prepared environment.                      *)

Next ==
    \/ \E n \in LookupNames : \E s \in LookupValues(n) :
          last.op = "none" /\ SetEnv(n, s)
    \/ \E n \in LookupNames : last.op = "none" /\ DelEnv(n)
    \/ \E dm \in {PyNone, PyStr(s_prod)} : New(EnvName("MODE"), PyNone, dm)
    \/ \E k \in KeysArgs, d \in DefaultArgs, md \in {PyNone} \cup Dicts,
          c \in {"str", "int"} : Call(k, d, md, c)
    \/ \E k \in KeysArgs, d \in DefaultArgs, md \in ShortcutDicts :
          Boolean(k, d, md)
    \/ \E k \in KeysArgs, d \in DefaultArgs, md \in ShortcutDicts :
          CommaList(k, d, md)
    \/ \E k \in KeysArgs, d \in DefaultArgs, md \in ShortcutDicts :
          Integer(k, d, md)

Spec == Init /\ [][Next]_vars

(* SpecNew: every construction, a changing mode variable, and lookups of    *)
(* one variable that succeed and fail.                                      *)

NewKeys == {EnvName("FOO")}

NewDefaults == {NOT_PROVIDED, PyStr(s_no)}

NextNew ==
    \/ \E s \in ModeValues : SetEnv("MODE", s)
    \/ SetEnv("FOO", s_7)
    \/ \E n \in {"MODE", "FOO"} : DelEnv(n)
    \/ \E mev \in {PyNone, EnvName("MODE")}, vm \in ValidModesArgs,
          dm \in DefaultModeArgs : New(mev, vm, dm)
    \/ \E k \in NewKeys, d \in NewDefaults : Call(k, d, PyNone, "str")
    \/ \E k \in NewKeys, d \in NewDefaults : Boolean(k, d, NotPassed)
    \/ \E k \in NewKeys, d \in NewDefaults : CommaList(k, d, NotPassed)
    \/ \E k \in NewKeys, d \in NewDefaults : Integer(k, d, NotPassed)

SpecNew == Init /\ [][NextNew]_vars

(* SpecParse: parse_boolean on an input and on a re-casing of it.           *)

\* characters of the strings enumerated exhaustively
ShortChars == {"n", "N", "o", "O", "f", "F", "0", "1", " "}

\* longer inputs, enumerated in every casing
LongWords ==
    {s_false, s_true, <<"f", "a", "l", "s">>, <<"f", "a", "l", "s", "e", " ">>,
     <<"n", "o", "n", "e">>, <<"0", "f", "f", "0">>}

SameLetter(a, b) == a = b \/ <<a, b>> \in CasePairs \/ <<b, a>> \in CasePairs

\* the strings that differ from w in the case of letters only
RECURSIVE ReCasings(_)
ReCasings(w) ==
    IF w = <<>>
    THEN {<<>>}
    ELSE {<<c>> \o r : c \in {d \in Chars : SameLetter(d, Head(w))},
                       r \in ReCasings(Tail(w))}

ParseInputs == SeqsUpTo(ShortChars, MaxLen) \cup UNION {ReCasings(w) : w \in LongWords}

InitParse ==
    /\ environ = [n \in Names |-> PyNone]
    /\ env = NoEnv
    /\ ctor = NoCtor
    /\ last = NoCall
    /\ \E s \in ParseInputs : \E t \in ReCasings(s) :
          pb = [s |-> s, t |-> t, done |-> FALSE, rs |-> FALSE, rt |-> FALSE]

ParseBoolean ==
    /\ ~pb.done
    /\ pb' = [pb EXCEPT !.done = TRUE, !.rs = parse_boolean(pb.s),
                        !.rt = parse_boolean(pb.t)]
    /\ UNCHANGED <<environ, env, ctor, last>>

NextParse == ParseBoolean

SpecParse == InitParse /\ [][NextParse]_vars

----------------------------------------------------------------------------
(* Properties of the lookups (Spec).                                        *)

Shortcuts == {"boolean", "comma_list", "integer"}

\* the latest lookup ran Env.__call__: a direct call, or a shortcut that was
\* not refused for its keyword arguments
ReachedCall ==
    \/ last.op = "__call__"
    \/ last.op \in Shortcuts /\ last.mode_defaults.t = "NotPassed"

\* the mode_defaults Env.__call__ was given
GivenModeDefaults == IF last.op = "__call__" THEN last.mode_defaults ELSE PyNone

SomeKeySet == \E i \in DOMAIN last.seen : last.seen[i].t = "str"

FirstSetValue ==
    last.seen[CHOOSE i \in DOMAIN last.seen :
                 /\ last.seen[i].t = "str"
                 /\ \A j \in 1..(i - 1) : last.seen[j].t = "None"]

HasModeEntry(md) == md.t = "dict" /\ env.v.mode \in DOMAIN md.v

\* the default the resolution order names: the entry of mode_defaults for the
\* current mode if there is one, else the default argument
NamedDefault(md) == IF HasModeEntry(md) THEN md.v[env.v.mode] ELSE last.default

Returned(val) ==
    IF val.t = "None"
    THEN last.raised = "" /\ last.ret = PyNone
    ELSE /\ last.raised = apply_coerce(last.coerce, val).raised
         /\ last.ret = apply_coerce(last.coerce, val).ret

\* C1: when at least one of the keys is set, the result is coerce(v) for the
\* value v of the first key, in the order given, that is set; a key set to
\* '' counts as set, and default and mode_defaults play no part.
C1_first_set_key_wins ==
    (ReachedCall /\ SomeKeySet) => Returned(FirstSetValue)

C1_witness ==
    /\ last.op = "__call__"
    /\ last.keys = PyList(<<"FOO", "BAZ">>)
    /\ last.seen = <<PyStr(s_empty), PyStr(s_no)>>
    /\ last.default = PyStr(s_list)
    /\ HasModeEntry(last.mode_defaults)
    /\ last.ret = PyStr(s_empty)

\* C2: when none of the keys is set, the value used is the entry of
\* mode_defaults for the current mode if there is one, else the default
\* argument.
C2_default_resolution ==
    (/\ last.op = "__call__"
     /\ ~SomeKeySet
     /\ NamedDefault(last.mode_defaults).t # "NOT_PROVIDED")
        => Returned(NamedDefault(last.mode_defaults))

\* C2 for one key or more: the resolution order holds whenever the scan of
\* the keys assigns val.
C2_default_resolution_some_key ==
    (/\ ReachedCall
     /\ Len(last.seen) > 0
     /\ ~SomeKeySet
     /\ NamedDefault(GivenModeDefaults).t # "NOT_PROVIDED")
        => Returned(NamedDefault(GivenModeDefaults))

Required == "ValueError: Environment variable is required"

\* C3: the missing-required-variable error is raised exactly when no key is
\* set, mode_defaults has no entry for the current mode, and no default was
\* passed.
C3_required_error ==
    last.op = "__call__" =>
        (last.raised = Required
            <=> (/\ ~SomeKeySet
                 /\ ~HasModeEntry(last.mode_defaults)
                 /\ last.default = NOT_PROVIDED))

\* C3 for one key or more.
C3_required_error_some_key ==
    (ReachedCall /\ Len(last.seen) > 0) =>
        (last.raised = Required
            <=> (/\ ~SomeKeySet
                 /\ ~HasModeEntry(GivenModeDefaults)
                 /\ last.default = NOT_PROVIDED))

\* the value the lookup resolves to, where it resolves to one
FinalValue == IF SomeKeySet THEN FirstSetValue ELSE NamedDefault(GivenModeDefaults)

\* C4: coerce is called exactly once, on the final value, wherever that value
\* came from, unless the final value is None: then coerce is not called and
\* None is returned. A lookup that raises before it has a final value calls
\* coerce not at all.
C4_coerce_once_unless_none ==
    /\ (ReachedCall /\ Len(last.seen) > 0 /\ FinalValue.t = "str")
          => last.coerced = <<FinalValue>> /\ Returned(FinalValue)
    /\ (ReachedCall /\ Len(last.seen) > 0 /\ FinalValue.t = "None")
          => last.coerced = <<>> /\ last.raised = "" /\ last.ret = PyNone
    /\ last.raised \in {Required, "UnboundLocalError: val"}
          => last.coerced = <<>>

C4_witness ==
    /\ last.op = "__call__"
    /\ last.coerce = "int"
    /\ Len(last.seen) > 0
    /\ ~SomeKeySet
    /\ last.default = PyStr(s_list)
    /\ HasModeEntry(last.mode_defaults)
    /\ last.mode_defaults.v[env.v.mode] = PyNone
    /\ last.ret = PyNone
    /\ last.coerced = <<>>

\* C5: boolean, integer and comma_list accept mode_defaults: when no key is
\* set and mode_defaults has an entry v for the current mode, the shortcut
\* returns its coerce function applied to v.
C5_shortcuts_take_mode_defaults ==
    (/\ last.op \in Shortcuts
     /\ Len(last.seen) > 0
     /\ ~SomeKeySet
     /\ HasModeEntry(last.mode_defaults)
     /\ last.mode_defaults.v[env.v.mode].t = "str")
        => Returned(last.mode_defaults.v[env.v.mode])

----------------------------------------------------------------------------
(* Properties of the construction (SpecNew).                                *)

ReadModeVariable == ctor.mode_env_var.t = "name" /\ ctor.seen.t = "str"

\* C6 as claimed: for every valid_modes list passed and every value not in
\* it, construction with the mode variable set to that value fails.
C6_invalid_mode_any_list ==
    (/\ ctor.called
     /\ ReadModeVariable
     /\ ctor.valid_modes.t = "list"
     /\ ~list_contains(ctor.valid_modes.v, ctor.seen.v))
        => ctor.raised # "" /\ env.t = "None"

\* the list the passed valid_modes stands for: an empty list stands for the
\* default list
StandsFor(valid_modes) ==
    IF valid_modes.t = "list" /\ valid_modes.v # <<>>
    THEN valid_modes.v
    ELSE <<s_dev, s_prod>>

\* C6: for every valid_modes list passed and every value that is not in it
\* (not in ['dev', 'prod'] when the list passed is empty), construction with
\* the mode variable set to that value fails and yields no Env.
C6_invalid_mode_raises ==
    (/\ ctor.called
     /\ ReadModeVariable
     /\ ~list_contains(StandsFor(ctor.valid_modes), ctor.seen.v))
        => ctor.raised # "" /\ env.t = "None"

C6_witness ==
    /\ ctor.called
    /\ ctor.mode_env_var = EnvName("MODE")
    /\ ctor.valid_modes = PyList(<<s_qa, s_dev>>)
    /\ ctor.seen = PyStr(s_prod)
    /\ ctor.raised # ""
    /\ env.t = "None"

\* C7 as claimed: the mode of a constructed Env is the value of the mode
\* variable if that is given and set, else default_mode: the value passed
\* or, when none is passed, the first of valid_modes ('dev' without it).
C7_mode_resolution_passed_default ==
    (ctor.called /\ ctor.raised = "") =>
        env.v.mode =
            IF ReadModeVariable THEN ctor.seen.v
            ELSE IF ctor.default_mode.t = "str" THEN ctor.default_mode.v
            ELSE StandsFor(ctor.valid_modes)[1]

\* C7: the mode of a constructed Env is the value of the mode variable if
\* that is given and set, else default_mode: the value passed if it is a
\* non-empty string, otherwise the first of valid_modes ('dev' when
\* valid_modes is not passed or is empty).
C7_mode_resolution ==
    (ctor.called /\ ctor.raised = "") =>
        /\ env.t = "Env"
        /\ env.v.mode =
              IF ReadModeVariable THEN ctor.seen.v
              ELSE IF ctor.default_mode.t = "str" /\ ctor.default_mode.v # <<>>
              THEN ctor.default_mode.v
              ELSE StandsFor(ctor.valid_modes)[1]

C7_witness ==
    /\ env.t = "Env"
    /\ ctor.mode_env_var = EnvName("MODE")
    /\ ctor.seen = PyNone
    /\ ctor.valid_modes = PyList(<<s_qa, s_dev>>)
    /\ ctor.default_mode = PyStr(s_dev)
    /\ env.v.mode = s_dev

\* C8: once an Env is constructed, through every lookup and every change of
\* the environment, its mode is one of its valid_modes and is the mode
\* resolved at construction.
C8_mode_fixed_and_valid ==
    env.t = "Env" =>
        /\ list_contains(env.v.valid_modes, env.v.mode)
        /\ env.v.mode = ctor.mode
        /\ ctor.raised = ""

C8_witness ==
    /\ env.t = "Env"
    /\ environ["MODE"].t = "str"
    /\ environ["MODE"] # ctor.seen
    /\ ~list_contains(env.v.valid_modes, environ["MODE"].v)
    /\ last.op = "integer"
    /\ last.raised # ""

\* C9 as claimed: every constructed Env has default_mode in valid_modes.
C9_default_mode_always_valid ==
    env.t = "Env" => list_contains(env.v.valid_modes, env.v.default_mode)

\* C9: every Env constructed without a mode read from the environment
\* (mode_env_var omitted, or the variable unset at construction) has
\* default_mode in valid_modes; with the mode variable set to a valid mode,
\* construction succeeds whatever default_mode is.
C9_default_mode_valid_when_used ==
    /\ (env.t = "Env" /\ ~ReadModeVariable) =>
          list_contains(env.v.valid_modes, env.v.default_mode)
    /\ (/\ ctor.called
        /\ ReadModeVariable
        /\ list_contains(StandsFor(ctor.valid_modes), ctor.seen.v))
          => ctor.raised = "" /\ env.t = "Env"

C9_witness ==
    /\ env.t = "Env"
    /\ ctor.mode_env_var = EnvName("MODE")
    /\ ctor.seen = PyNone
    /\ ctor.valid_modes = PyList(<<s_qa, s_empty>>)
    /\ ctor.default_mode = PyStr(s_qa)
    /\ env.v.default_mode = s_qa

----------------------------------------------------------------------------
(* Properties of parse_boolean (SpecParse).                                 *)

\* every casing of '', '0', 'n', 'f', 'no' and 'false'
FalseInputs ==
    UNION {ReCasings(w) :
             w \in {<<>>, <<"0">>, <<"n">>, <<"f">>, <<"n", "o">>,
                    <<"f", "a", "l", "s", "e">>}}

============================================================================
